---- MODULE Spec2Model ----
(***************************************************************************)
(* A state-machine model of the workout tracker in src/script.js: the      *)
(* Workout / Running / Cycling records, the App session controller, its    *)
(* event handlers, and the 'workouts' entry of localStorage.               *)
(*                                                                         *)
(* Conventions                                                             *)
(*  - A workout object is a record of its fields.  Objects with the same   *)
(*    fields are not told apart: find and indexOf give the first workout   *)
(*    with the id looked for, and a marker is known by what it shows: the  *)
(*    markers on the map are the sequence of what they show, in the order  *)
(*    they were added.                                                     *)
(*  - Date.now() is the pair [hi, lo]: lo is the value of its last ten     *)
(*    decimal digits, hi the value of the digits before them.              *)
(*  - A Leaflet marker that was added to a map refers to the map, and the  *)
(*    map refers to its layers: JSON.stringify of an object holding such a *)
(*    marker throws TypeError (the TODO at src/script.js:209).             *)
(*  - `proto` is the prototype of the object: the class for an object made *)
(*    by a constructor, "Object" for one made by JSON.parse.               *)
(*  - An exception ends the handler that raised it and nothing else: what  *)
(*    the handler assigned before the throw stays assigned.                *)
(*  - The page is the usual one for this script: the form is the first     *)
(*    child of the .workouts container, so an entry inserted 'afterend' of *)
(*    the form becomes the first entry of the list.                        *)
(***************************************************************************)
EXTENDS Integers, Sequences, FiniteSets, Bags, TLC

VARIABLES
    pc,              \* "Uninitialized" | "Constructed" | "Crashed" (the script's top level)
    handlers,        \* the listeners registered at lines 80-84 and 329
    geo,             \* the geolocation request: "idle" | "unsupported" | "pending" | "ok" | "failed"
    map,             \* App.#map is defined
    view,            \* the centre the map view was last set to
    mapEvent,        \* App.#mapEvent
    formHidden,      \* the form carries the class 'hidden'
    workouts,        \* App.#workouts
    workoutsIsArray, \* App.#workouts is an array (false after a blob that parses to something else)
    list,            \* the <li class="workout"> elements after the form, top first
    markers,         \* the marker layers on the map, in the order they were added
    blob,            \* localStorage['workouts']
    now,             \* Date.now()
    hydrations,      \* the calls of _getLocalStorage made since the page was loaded
    lastEvent        \* history: the event handled last

vars == <<pc, handlers, geo, map, view, mapEvent, formHidden, workouts,
          workoutsIsArray, list, markers, blob, now, hydrations, lastEvent>>

(***************************************************************************)
(* Bounds of the model.                                                    *)
(***************************************************************************)
\* The most workouts the array holds when a submit is taken.
MaxWorkouts == 2

\* The most entries the list holds after a repeated _getLocalStorage.
MaxList == 2

\* The most calls of _getLocalStorage on one page.
MaxHydrations == 2

(***************************************************************************)
(* Values.                                                                 *)
(***************************************************************************)
Undefined == [k |-> "undefined"]

Num(n) == [k |-> "num", v |-> n]

NaN == [k |-> "NaN", v |-> 0]

Infinity == [k |-> "Infinity", v |-> 0]

mapZoomLevel == 13

\* Unary plus on the text of an input field.
ToNumber(s) ==
    CASE s = ""         -> Num(0)
      [] s = "0"        -> Num(0)
      [] s = "-1"       -> Num(-1)
      [] s = "1"        -> Num(1)
      [] s = "2"        -> Num(2)
      [] s = "3"        -> Num(3)
      [] s = "Infinity" -> Infinity
      [] OTHER          -> NaN

ClickCoords == {<<1, 1>>}

Position == <<0, 0>>

\* The clock readings: an earlier ten-digit window (hi = 0) and the current one,
\* two readings in each.
Clock == [hi : {0, 1}, lo : {0, 1}]

Later(a, b) == a.hi < b.hi \/ (a.hi = b.hi /\ a.lo < b.lo)

(***************************************************************************)
(* Rational arithmetic for the derived metrics: <<n, d>> in lowest terms;  *)
(* <<1, 0>> is Infinity and <<0, 0>> NaN, as IEEE division gives.          *)
(***************************************************************************)
Abs(x) == IF x < 0 THEN -x ELSE x

RECURSIVE Gcd(_, _)
Gcd(a, b) == IF b = 0 THEN a ELSE Gcd(b, a % b)

Frac(n, d) ==
    IF d = 0 THEN <<IF n = 0 THEN 0 ELSE IF n > 0 THEN 1 ELSE -1, 0>>
    ELSE LET g == Gcd(Abs(n), Abs(d))
             s == IF d < 0 THEN -1 ELSE 1
         IN <<s * (n \div g), s * (d \div g)>>

\* Number.prototype.toFixed(1): the number of tenths nearest to x, the larger on a tie.
toFixed1(x) ==
    IF x[2] = 0 THEN x
    ELSE <<(20 * x[1] + x[2]) \div (2 * x[2]), 10>>

(***************************************************************************)
(* class Workout, Running, Cycling.                                        *)
(***************************************************************************)
\* (Date.now() + '').slice(-10)
Slice10(t) == t.lo

capitalize(type) == IF type = "running" THEN "Running" ELSE "Cycling"

_setDescription(type, date) == [kind |-> capitalize(type), on |-> date]

\* The pace rounded to one decimal when it is stored (toFixed at line 44 instead of
\* at line 248).
calcPace_Rounded(distance, duration) ==
    LET r == toFixed1(Frac(duration, distance)) IN Frac(r[1], r[2])

calcPace(distance, duration) == Frac(duration, distance)

calcSpeed(distance, duration) == Frac(distance * 60, duration)

Running(t, coords, distance, duration, cadence) ==
    [proto |-> "Running", date |-> t, id |-> Slice10(t),
     marker |-> Undefined,
     coords |-> coords, distance |-> distance, duration |-> duration,
     type |-> "running", cadence |-> cadence,
     pace |-> calcPace(distance, duration),
     description |-> _setDescription("running", t)]

Cycling(t, coords, distance, duration, elevationGain) ==
    [proto |-> "Cycling", date |-> t, id |-> Slice10(t),
     marker |-> Undefined,
     coords |-> coords, distance |-> distance, duration |-> duration,
     type |-> "cycling", elevationGain |-> elevationGain,
     speed |-> calcSpeed(distance, duration),
     description |-> _setDescription("cycling", t)]

(***************************************************************************)
(* JSON and localStorage.  The stored text is one of: no entry, a text     *)
(* JSON.parse rejects, a text that parses to something truthy that is not  *)
(* an array, or an array of flat workout records.                          *)
(***************************************************************************)
Missing == [k |-> "missing", v |-> <<>>]

Unparseable == [k |-> "unparseable", v |-> <<>>]

NotArray == [k |-> "notarray", v |-> <<>>]

ArrayBlob(s) == [k |-> "array", v |-> s]

\* What JSON.stringify writes for one workout whose marker is undefined: every
\* own property but `marker` (an undefined property is left out).
Flat(w) ==
    IF w.type = "running"
    THEN [date |-> w.date, id |-> w.id, coords |-> w.coords, distance |-> w.distance,
          duration |-> w.duration, type |-> w.type, cadence |-> w.cadence,
          pace |-> w.pace, description |-> w.description]
    ELSE [date |-> w.date, id |-> w.id, coords |-> w.coords, distance |-> w.distance,
          duration |-> w.duration, type |-> w.type, elevationGain |-> w.elevationGain,
          speed |-> w.speed, description |-> w.description]

\* JSON.stringify(this.#workouts): a marker on the map makes the structure circular.
JSONstringify(ws) ==
    IF \E i \in 1..Len(ws) : ws[i].marker # Undefined
    THEN [k |-> "TypeError", v |-> <<>>]
    ELSE ArrayBlob([i \in 1..Len(ws) |-> Flat(ws[i])])

\* JSON.parse(localStorage.getItem('workouts')); getItem gives null for no entry.
JSONparse(b) ==
    CASE b.k = "missing"     -> [k |-> "null", v |-> <<>>]
      [] b.k = "unparseable" -> [k |-> "SyntaxError", v |-> <<>>]
      [] b.k = "notarray"    -> [k |-> "object", v |-> <<>>]
      [] OTHER               -> [k |-> "array", v |-> b.v]

\* The record built again from its inputs: the derived metric is computed anew.
Revive_Recomputed(f) ==
    IF f.type = "running"
    THEN [proto |-> "Object", date |-> f.date, id |-> f.id,
          marker |-> Undefined,
          coords |-> f.coords, distance |-> f.distance, duration |-> f.duration,
          type |-> f.type, cadence |-> f.cadence,
          pace |-> calcPace(f.distance, f.duration),
          description |-> f.description]
    ELSE [proto |-> "Object", date |-> f.date, id |-> f.id,
          marker |-> Undefined,
          coords |-> f.coords, distance |-> f.distance, duration |-> f.duration,
          type |-> f.type, elevationGain |-> f.elevationGain,
          speed |-> calcSpeed(f.distance, f.duration),
          description |-> f.description]

\* The plain object JSON.parse builds from a flat record: no marker property, and
\* Object.prototype in place of the class the record was created with.
Revive(f) ==
    IF f.type = "running"
    THEN [proto |-> "Object", date |-> f.date, id |-> f.id,
          marker |-> Undefined,
          coords |-> f.coords, distance |-> f.distance, duration |-> f.duration,
          type |-> f.type, cadence |-> f.cadence, pace |-> f.pace,
          description |-> f.description]
    ELSE [proto |-> "Object", date |-> f.date, id |-> f.id,
          marker |-> Undefined,
          coords |-> f.coords, distance |-> f.distance, duration |-> f.duration,
          type |-> f.type, elevationGain |-> f.elevationGain, speed |-> f.speed,
          description |-> f.description]

\* A save that writes workout by workout: what was written before the throw stays.
_setLocalStorage_Partial(ws, b) ==
    LET s == JSONstringify(ws)
    IN [blob |-> IF s.k = "TypeError" THEN ArrayBlob(<<>>) ELSE s,
        threw |-> s.k = "TypeError"]

\* _setLocalStorage: the new stored text, or the old one when stringify throws.
_setLocalStorage(ws, b) ==
    LET s == JSONstringify(ws)
    IN [blob |-> IF s.k = "TypeError" THEN b ELSE s, threw |-> s.k = "TypeError"]

(***************************************************************************)
(* Rendering.                                                              *)
(***************************************************************************)
\* The <li> _renderWorkout builds: data-id and the values shown.
Entry(w) ==
    [id |-> w.id, title |-> w.description, type |-> w.type,
     distance |-> w.distance, duration |-> w.duration,
     metric |-> IF w.type = "running" THEN toFixed1(w.pace) ELSE toFixed1(w.speed),
     extra |-> IF w.type = "running" THEN w.cadence ELSE w.elevationGain]

\* The entry put in at the end of the container ('beforeend' on .workouts).
_renderWorkout_BeforeEnd(lst, w) == lst \o <<Entry(w)>>

\* form.insertAdjacentHTML('afterend', html): the new entry is the first of the list.
_renderWorkout(lst, w) == <<Entry(w)>> \o lst

RECURSIVE RenderAll(_, _)
RenderAll(lst, ws) ==
    IF ws = <<>> THEN lst ELSE RenderAll(_renderWorkout(lst, Head(ws)), Tail(ws))

\* The layer L.marker(...).addTo(map) puts on the map.
Marker(w) == [coords |-> w.coords, popup |-> w.type, content |-> w.description]

\* The value of workout.marker once the marker is made: a reference to that layer.
MarkerRef == [k |-> "marker"]

\* _renderWorkoutMarker: the workout with its marker field set.
_renderWorkoutMarker(w) == [w EXCEPT !.marker = MarkerRef]

\* The layers after L.marker(...).addTo(map) for w: the new layer is the last.
AddLayer(ms, w) == Append(ms, Marker(w))

\* The workout taken out of the array while its marker stays (line 206 left out).
RemoveLayer_Keep(ms, w) == ms

\* The layers after w.marker.remove(): the marker of w is taken off the map.
RemoveLayer(ms, w) ==
    IF \E i \in 1..Len(ms) : ms[i] = Marker(w)
    THEN LET i == CHOOSE k \in 1..Len(ms) :
                      /\ ms[k] = Marker(w)
                      /\ \A j \in 1..(k - 1) : ms[j] # Marker(w)
         IN [j \in 1..(Len(ms) - 1) |-> IF j < i THEN ms[j] ELSE ms[j + 1]]
    ELSE ms

\* The markers made from the last workout to the first (a loop that counts down).
RECURSIVE AddLayers_Reversed(_, _)
AddLayers_Reversed(ms, ws) ==
    IF ws = <<>> THEN ms
    ELSE AddLayers_Reversed(Append(ms, Marker(ws[Len(ws)])), SubSeq(ws, 1, Len(ws) - 1))

\* this.#workouts.forEach(w => this._renderWorkoutMarker(w)): the layers afterwards.
RECURSIVE AddLayers(_, _)
AddLayers(ms, ws) ==
    IF ws = <<>> THEN ms ELSE AddLayers(AddLayer(ms, Head(ws)), Tail(ws))

(***************************************************************************)
(* Lookup.                                                                 *)
(***************************************************************************)
\* A find whose test always passes (w.id = ... for w.id === ...): the first workout.
_findWorkout_First(ws, el) == IF Len(ws) > 0 THEN 1 ELSE 0

\* this.#workouts.find(w => w.id === el.dataset.id), then indexOf: the index of the
\* first workout with the element's id, 0 when there is none.
_findWorkout(ws, el) ==
    IF \E i \in 1..Len(ws) : ws[i].id = el.id
    THEN CHOOSE i \in 1..Len(ws) :
             /\ ws[i].id = el.id
             /\ \A j \in 1..(i - 1) : ws[j].id # el.id
    ELSE 0

\* Array.prototype.splice(index, 1), and Element.remove() on the list.
RemoveAt(s, i) == [j \in 1..(Len(s) - 1) |-> IF j < i THEN s[j] ELSE s[j + 1]]

(***************************************************************************)
(* Validation.                                                             *)
(***************************************************************************)
\* inputs.every(input => Number.isFinite(input))
validInputs(inputs) == \A i \in 1..Len(inputs) : inputs[i].k = "num"

\* input >= 0 for input > 0.
isPositiveInputs_NonNegative(inputs) ==
    \A i \in 1..Len(inputs) :
        \/ inputs[i].k = "Infinity"
        \/ (inputs[i].k = "num" /\ inputs[i].v >= 0)

\* inputs.every(input => input > 0)
isPositiveInputs(inputs) ==
    \A i \in 1..Len(inputs) :
        \/ inputs[i].k = "Infinity"
        \/ (inputs[i].k = "num" /\ inputs[i].v > 0)

(***************************************************************************)
(* The form.  The handler reads the type, the distance, the duration and   *)
(* the field of the chosen type; the other field is not read.              *)
(***************************************************************************)
Form(type, distance, duration, field) ==
    IF type = "running"
    THEN [type |-> type, distance |-> distance, duration |-> duration, cadence |-> field]
    ELSE [type |-> type, distance |-> distance, duration |-> duration, elevation |-> field]

\* For each type inputs that pass, and inputs with one field zero, negative, not a
\* number or infinite.
FormInputs ==
    {Form("running", "2", "1", "3"), Form("running", "", "1", "3"),
     Form("running", "2", "abc", "3"), Form("running", "2", "1", "0"),
     Form("cycling", "2", "1", "-1"), Form("cycling", "-1", "1", "-1"),
     Form("cycling", "2", "Infinity", "-1"), Form("cycling", "2", "1", "abc")}

\* The texts a field of the form may hold, and every form made of them.
Texts == {"", "0", "-1", "1", "2", "3", "Infinity", "abc"}

AllForms ==
    {Form(type, distance, duration, field) :
        type \in {"running", "cycling"}, distance \in Texts, duration \in Texts,
        field \in Texts}

\* The check of line 152 used at line 163 too: the elevation gain has to be positive.
Accepts_PositiveElevation(f) ==
    LET distance == ToNumber(f.distance)
        duration == ToNumber(f.duration)
        field == ToNumber(IF f.type = "running" THEN f.cadence ELSE f.elevation)
    IN /\ validInputs(<<distance, duration, field>>)
       /\ isPositiveInputs(<<distance, duration, field>>)

\* Lines 152 and 163 negated: the inputs pass the checks of their type.
Accepts(f) ==
    LET distance == ToNumber(f.distance)
        duration == ToNumber(f.duration)
    IN IF f.type = "running"
       THEN LET cadence == ToNumber(f.cadence)
            IN /\ validInputs(<<distance, duration, cadence>>)
               /\ isPositiveInputs(<<distance, duration, cadence>>)
       ELSE LET elevationGain == ToNumber(f.elevation)
            IN /\ validInputs(<<distance, duration, elevationGain>>)
               /\ isPositiveInputs(<<distance, duration>>)

\* new Running(...) or new Cycling(...) from the form, at the clicked place.
NewWorkout(f, t, latlng) ==
    IF f.type = "running"
    THEN Running(t, latlng, ToNumber(f.distance).v, ToNumber(f.duration).v,
                 ToNumber(f.cadence).v)
    ELSE Cycling(t, latlng, ToNumber(f.distance).v, ToNumber(f.duration).v,
                 ToNumber(f.elevation).v)

(***************************************************************************)
(* History of the last event: what was done, with which input, on which    *)
(* list entry, which workout a delete took out of the array, and whether   *)
(* the handler ended with an exception.                                    *)
(***************************************************************************)
NoInput == [type |-> "none"]

NoTarget == [id |-> -1]

NoRecord == [id |-> -1, proto |-> "none"]

Event(op, input, target, removed, threw) ==
    [op |-> op, input |-> input, target |-> target, removed |-> removed,
     threw |-> threw]

NoMapEvent == [k |-> "undefined"]

MapEvent(latlng) == [k |-> "click", latlng |-> latlng]

\* An event the history keeps no detail of.
Other == Event("other", NoInput, NoTarget, NoRecord, FALSE)

NoView == [k |-> "none"]

View(center, zoom) == [k |-> "view", center |-> center, zoom |-> zoom]

AllHandlers == {"submit", "change", "click", "deleteAll"}

(***************************************************************************)
(* Handlers as functions of the state they read.                           *)
(***************************************************************************)
\* _getLocalStorage: the array, the list and whether the call threw.
_getLocalStorage(b, ws, isArray, lst) ==
    LET p == JSONparse(b)
    IN CASE p.k = "SyntaxError" ->
                [workouts |-> ws, isArray |-> isArray, list |-> lst, threw |-> TRUE]
         [] p.k = "null" ->
                [workouts |-> ws, isArray |-> isArray, list |-> lst, threw |-> FALSE]
         [] p.k = "object" ->
                [workouts |-> <<>>, isArray |-> FALSE, list |-> lst, threw |-> TRUE]
         [] OTHER ->
                LET new == [i \in 1..Len(p.v) |-> Revive(p.v[i])]
                IN [workouts |-> new, isArray |-> TRUE,
                    list |-> RenderAll(lst, new), threw |-> FALSE]

\* _removeWorkout for a click inside the i-th entry of the list.
_removeWorkout(ws, lst, ms, b, i) ==
    LET el == lst[i]
        index == _findWorkout(ws, el)
    IN IF index = 0
       THEN [workouts |-> ws, list |-> lst, markers |-> ms, blob |-> b,
             removed |-> NoRecord, threw |-> FALSE]
       ELSE LET workout == ws[index]
                ws1 == RemoveAt(ws, index)
                lst1 == RemoveAt(lst, i)
                gone == [id |-> workout.id, proto |-> workout.proto,
                         flat |-> Flat(workout)]
            IN IF workout.marker = Undefined
               THEN \* workout.marker.remove() on undefined: TypeError
                    [workouts |-> ws1, list |-> lst1, markers |-> ms, blob |-> b,
                     removed |-> gone, threw |-> TRUE]
               ELSE LET save == _setLocalStorage(ws1, b)
                    IN [workouts |-> ws1, list |-> lst1,
                        markers |-> RemoveLayer(ms, workout),
                        blob |-> save.blob, removed |-> gone, threw |-> save.threw]

\* _moveToPopup without the check of line 285: the view is set whether or not the
\* location fix has made a map.
_moveToPopup_NoMapCheck(ws, el, v, hasMap) ==
    LET index == _findWorkout(ws, el)
    IN IF index = 0 THEN v
       ELSE View(ws[index].coords, IF v = NoView THEN mapZoomLevel ELSE v.zoom)

\* _moveToPopup for a click inside the element el: the view afterwards.
_moveToPopup(ws, el, v, hasMap) ==
    IF ~hasMap THEN v
    ELSE LET index == _findWorkout(ws, el)
         IN IF index = 0 THEN v ELSE View(ws[index].coords, v.zoom)

(***************************************************************************)
(* The initial states: the page is loaded and the script has not run.      *)
(* localStorage holds what earlier sessions (or anything else with access  *)
(* to the origin's storage) left there: workouts created at clock readings *)
(* of an earlier ten-digit window (hi = 0), with ids that differ.  What is *)
(* stored is not checked against the constructors: the speed stored for    *)
(* the cycling workout is not the one calcSpeed gives.                     *)
(***************************************************************************)
StoredWorkouts ==
    {IF u.lo % 2 = 0
     THEN Flat(Running(u, <<2, 2>>, 2, 1, 3))
     ELSE [Flat(Cycling(u, <<2, 2>>, 2, 1, -1)) EXCEPT !.speed = <<100, 1>>] :
        u \in {c \in Clock : c.hi = 0}}

StoredArrays ==
    {s \in UNION {[1..n -> StoredWorkouts] : n \in 0..Cardinality(StoredWorkouts)} :
        \A i, j \in 1..Len(s) : i # j => s[i].id # s[j].id}

InitBlobs == {Missing, Unparseable, NotArray} \cup {ArrayBlob(s) : s \in StoredArrays}

Init ==
    /\ pc = "Uninitialized"
    /\ handlers = {}
    /\ geo = "idle"
    /\ map = FALSE
    /\ view = NoView
    /\ mapEvent = NoMapEvent
    /\ formHidden = TRUE
    /\ workouts = <<>>
    /\ workoutsIsArray = TRUE
    /\ list = <<>>
    /\ markers = <<>>
    /\ now \in {c \in Clock : c.hi > 0}
    /\ blob \in InitBlobs
    /\ hydrations = 0
    /\ lastEvent = Event("load", NoInput, NoTarget, NoRecord, FALSE)

\* A page load: the script's objects, the DOM and the map are new; localStorage stays.
Restart(b, ev) ==
    /\ pc' = "Uninitialized"
    /\ handlers' = {}
    /\ geo' = "idle"
    /\ map' = FALSE
    /\ view' = NoView
    /\ mapEvent' = NoMapEvent
    /\ formHidden' = TRUE
    /\ workouts' = <<>>
    /\ workoutsIsArray' = TRUE
    /\ list' = <<>>
    /\ markers' = <<>>
    /\ blob' = b
    /\ hydrations' = 0
    /\ lastEvent' = ev
    /\ UNCHANGED now

(***************************************************************************)
(* Actions.                                                                *)
(***************************************************************************)
\* Lines 325-329: new App() and the registration of the delete-all listener.  An
\* exception in the constructor ends the script: nothing after it is registered,
\* but the location request made before it stays pending.
Construct ==
    /\ pc = "Uninitialized"
    /\ \E supported \in BOOLEAN :
           geo' = IF supported THEN "pending" ELSE "unsupported"
    /\ LET h == _getLocalStorage(blob, workouts, workoutsIsArray, list)
       IN /\ workouts' = h.workouts
          /\ workoutsIsArray' = h.isArray
          /\ list' = h.list
          /\ pc' = IF h.threw THEN "Crashed" ELSE "Constructed"
          /\ handlers' = IF h.threw THEN {} ELSE AllHandlers
          /\ lastEvent' = Event("start", NoInput, NoTarget, NoRecord, h.threw)
    /\ hydrations' = hydrations + 1
    /\ UNCHANGED <<map, view, mapEvent, formHidden, markers, blob, now>>

\* The success callback of getCurrentPosition.
_loadMap ==
    /\ geo = "pending"
    /\ geo' = "ok"
    /\ map' = TRUE
    /\ view' = View(Position, mapZoomLevel)
    /\ IF workoutsIsArray
       THEN /\ workouts' = [i \in 1..Len(workouts) |-> _renderWorkoutMarker(workouts[i])]
            /\ markers' = AddLayers(markers, workouts)
       ELSE UNCHANGED <<workouts, markers>>
    /\ lastEvent' = Event("position", NoInput, NoTarget, NoRecord, ~workoutsIsArray)
    /\ UNCHANGED <<pc, handlers, mapEvent, formHidden, workoutsIsArray, list, blob, now,
                   hydrations>>

\* The error callback of getCurrentPosition: a console message and an alert.
PositionError ==
    /\ geo = "pending"
    /\ geo' = "failed"
    /\ lastEvent' = Other
    /\ UNCHANGED <<pc, handlers, map, view, mapEvent, formHidden, workouts,
                   workoutsIsArray, list, markers, blob, now, hydrations>>

\* A click on the map.
_showForm ==
    /\ map
    /\ \E latlng \in ClickCoords : mapEvent' = MapEvent(latlng)
    /\ formHidden' = FALSE
    /\ lastEvent' = Other
    /\ UNCHANGED <<pc, handlers, geo, map, view, workouts, workoutsIsArray, list,
                   markers, blob, now, hydrations>>

\* A submit of the form with the fields f.
_newWorkout(f) ==
    IF mapEvent = NoMapEvent
    THEN \* line 144: this.#mapEvent is undefined
         /\ lastEvent' = Event("submit", f, NoTarget, NoRecord, TRUE)
         /\ UNCHANGED <<pc, handlers, geo, map, view, mapEvent, formHidden, workouts,
                        workoutsIsArray, list, markers, blob, now, hydrations>>
    ELSE IF ~Accepts(f)
    THEN \* alert('Inputs have to be a positive number!')
         /\ lastEvent' = Event("submit", f, NoTarget, NoRecord, FALSE)
         /\ UNCHANGED <<pc, handlers, geo, map, view, mapEvent, formHidden, workouts,
                        workoutsIsArray, list, markers, blob, now, hydrations>>
    ELSE LET workout == _renderWorkoutMarker(NewWorkout(f, now, mapEvent.latlng))
             ws1 == Append(workouts, workout)
             save == _setLocalStorage(ws1, blob)
         IN /\ workouts' = ws1
            /\ markers' = AddLayer(markers, workout)
            /\ list' = _renderWorkout(list, workout)
            /\ formHidden' = TRUE
            /\ blob' = save.blob
            /\ lastEvent' = Event("submit", f, NoTarget, NoRecord, save.threw)
            /\ UNCHANGED <<pc, handlers, geo, map, view, mapEvent, workoutsIsArray, now,
                           hydrations>>

Submit ==
    /\ "submit" \in handlers
    /\ Len(workouts) < MaxWorkouts
    /\ Len(list) < MaxList
    /\ \E f \in FormInputs : _newWorkout(f)

\* A click on the Delete button of the i-th entry: the button's listener
\* (_removeWorkout), then the container's (_moveToPopup), on the same event.
ClickDelete ==
    \E i \in 1..Len(list) :
        LET el == list[i]
            r == _removeWorkout(workouts, list, markers, blob, i)
        IN /\ workouts' = r.workouts
           /\ list' = r.list
           /\ markers' = r.markers
           /\ blob' = r.blob
           /\ view' = IF "click" \in handlers
                      THEN _moveToPopup(r.workouts, el, view, map)
                      ELSE view
           /\ lastEvent' = Event("delete", NoInput, el,
                                 r.removed, r.threw)
           /\ UNCHANGED <<pc, handlers, geo, map, mapEvent, formHidden,
                          workoutsIsArray, now, hydrations>>

\* A click inside the i-th entry that is not on its Delete button.
ClickEntry ==
    /\ "click" \in handlers
    /\ \E i \in 1..Len(list) :
           /\ view' = _moveToPopup(workouts, list[i], view, map)
           /\ lastEvent' = Event("entryClick", NoInput, NoTarget, NoRecord, FALSE)
    /\ UNCHANGED <<pc, handlers, geo, map, mapEvent, formHidden, workouts,
                   workoutsIsArray, list, markers, blob, now, hydrations>>

\* A click on the delete-all button.
reset ==
    /\ "deleteAll" \in handlers
    /\ \E confirm \in BOOLEAN :
           IF confirm
           THEN Restart(Missing, Event("reset", NoInput, NoTarget, NoRecord, FALSE))
           ELSE /\ lastEvent' = Other
                /\ UNCHANGED <<pc, handlers, geo, map, view, mapEvent, formHidden,
                               workouts, workoutsIsArray, list, markers, blob, now, hydrations>>

\* The user reloads the page.
Reload ==
    /\ pc # "Uninitialized"
    /\ Restart(blob, Event("reload", NoInput, NoTarget, NoRecord, FALSE))

\* Time passes.
Tick ==
    /\ \E t \in Clock : Later(now, t) /\ now' = t
    /\ lastEvent' = Other
    /\ UNCHANGED <<pc, handlers, geo, map, view, mapEvent, formHidden, workouts,
                   workoutsIsArray, list, markers, blob, hydrations>>

\* A second call of _getLocalStorage on the constructed App (the `hydrate`
\* operation called again).
Rehydrate ==
    /\ pc = "Constructed"
    /\ hydrations < MaxHydrations
    /\ Len(list) + Len(blob.v) <= MaxList
    /\ LET h == _getLocalStorage(blob, workouts, workoutsIsArray, list)
       IN /\ workouts' = h.workouts
          /\ workoutsIsArray' = h.isArray
          /\ list' = h.list
          /\ lastEvent' = Event("hydrate", NoInput, NoTarget, NoRecord, h.threw)
    /\ hydrations' = hydrations + 1
    /\ UNCHANGED <<pc, handlers, geo, map, view, mapEvent, formHidden, markers,
                   blob, now>>

Next ==
    \/ Construct
    \/ _loadMap
    \/ PositionError
    \/ _showForm
    \/ Submit
    \/ ClickDelete
    \/ ClickEntry
    \/ reset
    \/ Reload
    \/ Tick

Spec == Init /\ [][Next]_vars

NextApi == Next \/ Rehydrate

SpecApi == Init /\ [][NextApi]_vars

(***************************************************************************)
(* The record constructors on their own: new Running(...) or new           *)
(* Cycling(...) is called once with a distance and a duration out of       *)
(* Amounts, and the record made is kept in the array.                      *)
(***************************************************************************)
Amounts == {1, 2, 3, 5, 20, 25, 60}

Create ==
    /\ pc = "Uninitialized"
    /\ workouts = <<>>
    /\ \E type \in {"running", "cycling"}, distance \in Amounts, duration \in Amounts :
           workouts' = <<IF type = "running"
                         THEN Running(now, Position, distance, duration, 3)
                         ELSE Cycling(now, Position, distance, duration, -1)>>
    /\ lastEvent' = Event("create", NoInput, NoTarget, NoRecord, FALSE)
    /\ UNCHANGED <<pc, handlers, geo, map, view, mapEvent, formHidden, workoutsIsArray,
                   list, markers, blob, now, hydrations>>

SpecCalc == Init /\ [][Create]_vars

(***************************************************************************)
(* The form on its own: in state Ready with an empty array, after a click  *)
(* on the map, one submit of any form made of Texts.                       *)
(***************************************************************************)
InitForm ==
    /\ pc = "Constructed"
    /\ handlers = AllHandlers
    /\ geo = "ok"
    /\ map = TRUE
    /\ view = View(Position, mapZoomLevel)
    /\ \E latlng \in ClickCoords : mapEvent = MapEvent(latlng)
    /\ formHidden = FALSE
    /\ workouts = <<>>
    /\ workoutsIsArray = TRUE
    /\ list = <<>>
    /\ markers = <<>>
    /\ now \in {c \in Clock : c.hi > 0}
    /\ blob \in {Missing, ArrayBlob(<<>>)}
    /\ hydrations = 1
    /\ lastEvent = Other

SubmitAny ==
    /\ "submit" \in handlers
    /\ lastEvent = Other
    /\ \E f \in AllForms : _newWorkout(f)

SpecForm == InitForm /\ [][SubmitAny]_vars

(***************************************************************************)
(* Vocabulary of the properties.                                           *)
(***************************************************************************)
\* Finite and strictly positive.
StrictlyPositive(x) == x.k = "num" /\ x.v > 0

\* The distance or the duration, or for Running the cadence, is non-finite or not
\* strictly positive.
InvalidForm(f) ==
    \/ ~StrictlyPositive(ToNumber(f.distance))
    \/ ~StrictlyPositive(ToNumber(f.duration))
    \/ (f.type = "running" /\ ~StrictlyPositive(ToNumber(f.cadence)))

\* Inputs a submit is to accept: none of the above, and for Cycling a finite
\* elevation gain of any sign.
ValidForm(f) ==
    /\ f.type \in {"running", "cycling"}
    /\ ~InvalidForm(f)
    /\ (f.type = "cycling" => ToNumber(f.elevation).k = "num")

\* Every workout of the array, in order, with every field but the marker.
Persisted(ws) == ArrayBlob([i \in 1..Len(ws) |-> Flat(ws[i])])

\* The stored array holds the flat record r.
BlobHolds(b, r) == b.k = "array" /\ \E i \in 1..Len(b.v) : b.v[i] = r

\* The last event was a submit in state Ready (a map, and a click on it) with
\* inputs that are valid.
SubmittedValid ==
    /\ lastEvent.op = "submit"
    /\ ValidForm(lastEvent.input)
    /\ map
    /\ mapEvent # NoMapEvent

\* The last event was a delete click on the entry of a workout the array held.
DeletedHeld == lastEvent.op = "delete" /\ lastEvent.removed # NoRecord

(***************************************************************************)
(* C1.  In state Ready, once a submit with valid inputs has been handled,  *)
(* the stored 'workouts' text holds every workout of the array, in order,  *)
(* with all its fields except the marker (so that a reload restores them). *)
(* The code does not do this: the save throws once a workout has a marker. *)
(***************************************************************************)
C1_SubmitPersistsStore == SubmittedValid => blob = Persisted(workouts)

(***************************************************************************)
(* C2.  In state Ready, a delete click on the entry of a workout the array *)
(* holds removes that workout, and afterwards the stored text no longer    *)
(* contains it.  The code leaves the stored text as it was whenever a      *)
(* workout with a marker remains.                                          *)
(***************************************************************************)
C2_DeletePersists ==
    (DeletedHeld /\ map) =>
        /\ Entry(lastEvent.removed.flat) = lastEvent.target
        /\ ~BlobHolds(blob, lastEvent.removed.flat)

(***************************************************************************)
(* C3.  A submit whose distance or duration is non-finite or not strictly  *)
(* positive (or, for Running, whose cadence is) changes neither the array, *)
(* nor the list, nor the markers, nor the stored text.                     *)
(***************************************************************************)
C3_InvalidSubmitChangesNothing ==
    [][(lastEvent'.op = "submit" /\ InvalidForm(lastEvent'.input))
          => UNCHANGED <<workouts, list, markers, blob>>]_vars

\* An invalid submit was turned down in state Ready while the array held a workout.
C3_Witness ==
    /\ lastEvent.op = "submit"
    /\ InvalidForm(lastEvent.input)
    /\ ~lastEvent.threw
    /\ mapEvent # NoMapEvent
    /\ Len(workouts) > 0

(***************************************************************************)
(* C4.  A stored text that is missing, unparseable or not an array is      *)
(* never fatal: start-up completes with an empty array and with the        *)
(* submit, list-click and delete-all listeners registered.  The code       *)
(* throws out of the constructor on the last two.                          *)
(***************************************************************************)
C4_CorruptBlobNotFatal ==
    (lastEvent.op = "start" /\ blob.k \in {"missing", "unparseable", "notarray"}) =>
        /\ ~lastEvent.threw
        /\ workoutsIsArray
        /\ workouts = <<>>
        /\ {"submit", "click", "deleteAll"} \subseteq handlers

(***************************************************************************)
(* C5.  In every reachable state no two workouts of the array have the     *)
(* same id.  The code takes the id from the last ten digits of the clock:  *)
(* two workouts made at one reading, or ten-digit windows apart, share it. *)
(***************************************************************************)
C5_UniqueIds ==
    \A i, j \in 1..Len(workouts) : i # j => workouts[i].id # workouts[j].id

(***************************************************************************)
(* C6.  While no map is initialised, a delete click on the entry of a      *)
(* hydrated workout completes without an exception, removes the workout    *)
(* from the array and the list, and the stored text no longer contains it. *)
(* The code throws on the undefined marker before it saves.                *)
(***************************************************************************)
C6_DeleteWithoutMap ==
    (DeletedHeld /\ ~map /\ lastEvent.removed.proto = "Object") =>
        /\ ~lastEvent.threw
        /\ ~BlobHolds(blob, lastEvent.removed.flat)

(***************************************************************************)
(* C7.  Full reset is available from every state the script leaves the     *)
(* page in.  After a start-up that threw, the delete-all listener is not   *)
(* registered.                                                             *)
(***************************************************************************)
C7_ResetAvailable == pc # "Uninitialized" => "deleteAll" \in handlers

\* C7, the confirm gate (holds): a declined reset changes nothing.
C7_DeclinedChangesNothing ==
    [][(reset /\ pc' # "Uninitialized")
          => UNCHANGED <<workouts, list, markers, blob>>]_vars

\* C7, the confirm gate (holds): a confirmed reset removes the stored text and
\* reloads the page, and the next start-up ends with an empty array and list.
C7_ConfirmedClears ==
    /\ lastEvent.op = "reset" =>
           blob = Missing /\ pc = "Uninitialized" /\ workouts = <<>> /\ list = <<>>
                /\ markers = <<>>
    /\ (lastEvent.op = "start" /\ blob = Missing) => workouts = <<>> /\ list = <<>>

(***************************************************************************)
(* C8.  Two calls of _getLocalStorage in succession leave the list that    *)
(* one call leaves.  The code inserts an entry for every stored workout on *)
(* each call.                                                              *)
(***************************************************************************)
C8_HydrateIdempotent ==
    [][(/\ lastEvent.op \in {"start", "hydrate"}
        /\ lastEvent'.op = "hydrate"
        /\ hydrations' = hydrations + 1)
          => list' = list]_vars

(***************************************************************************)
(* C9.  After a workout is appended and then removed through its id, no    *)
(* workout with that id is left in the array, and the workout removed is   *)
(* the one whose entry was clicked.  With two workouts of one id (C5) the  *)
(* code removes the first of them.                                         *)
(***************************************************************************)
\* The entry clicked last shows a workout made by a submit of this page: the one
\* taken out of the array, or one still in it.
AppendedTarget ==
    \/ /\ Entry(lastEvent.removed.flat) = lastEvent.target
       /\ lastEvent.removed.proto # "Object"
    \/ \E j \in 1..Len(workouts) :
           /\ Entry(workouts[j]) = lastEvent.target
           /\ workouts[j].proto # "Object"

C9_RemoveAppended ==
    (DeletedHeld /\ AppendedTarget) =>
        /\ Entry(lastEvent.removed.flat) = lastEvent.target
        /\ \A j \in 1..Len(workouts) : workouts[j].id # lastEvent.target.id

(***************************************************************************)
(* C10.  A delete click on an entry whose id no workout of the array has   *)
(* changes neither the array, nor the list, nor the markers, nor the       *)
(* stored text.                                                            *)
(***************************************************************************)
C10_DeleteUnknownIsNoOp ==
    [][(/\ lastEvent'.op = "delete"
        /\ \A j \in 1..Len(workouts) : workouts[j].id # lastEvent'.target.id)
          => UNCHANGED <<workouts, list, markers, blob>>]_vars

\* A delete click found no workout for its entry while the array held one.
C10_Witness ==
    /\ lastEvent.op = "delete"
    /\ lastEvent.removed = NoRecord
    /\ ~lastEvent.threw
    /\ Len(workouts) > 0
    /\ \A j \in 1..Len(workouts) : workouts[j].id # lastEvent.target.id

(***************************************************************************)
(* C11.  A record made by a constructor with distance > 0 and duration > 0 *)
(* has, for Running, a pace p with p * distance = duration and, for        *)
(* Cycling, a speed s with s * duration = 60 * distance: the quotients     *)
(* themselves, not rounded.  Distance 5 and duration 25 give the pace 5;   *)
(* distance 20 and duration 60 give the speed 20.                          *)
(***************************************************************************)
C11_MetricsExact ==
    \A i \in 1..Len(workouts) :
        LET w == workouts[i]
        IN (w.proto # "Object" /\ w.distance > 0 /\ w.duration > 0) =>
               IF w.type = "running"
               THEN /\ w.pace[2] > 0
                    /\ w.pace[1] * w.distance = w.duration * w.pace[2]
                    /\ (w.distance = 5 /\ w.duration = 25) => w.pace = <<5, 1>>
               ELSE /\ w.speed[2] > 0
                    /\ w.speed[1] * w.duration = 60 * w.distance * w.speed[2]
                    /\ (w.distance = 20 /\ w.duration = 60) => w.speed = <<20, 1>>

\* A Running record was made whose pace is not a whole number of tenths.
C11_Witness ==
    /\ lastEvent.op = "create"
    /\ \E i \in 1..Len(workouts) :
           /\ workouts[i].proto = "Running"
           /\ workouts[i].distance = 3
           /\ workouts[i].duration = 20
           /\ workouts[i].pace = <<20, 3>>

(***************************************************************************)
(* C12.  A submit in state Ready is accepted (a workout is appended)       *)
(* exactly when the distance and the duration are finite and strictly      *)
(* positive and, for Running, the cadence is.  The code also turns down a  *)
(* Cycling submit whose elevation gain is not finite (line 163), and a     *)
(* submit made before any click on the map throws (line 144).              *)
(***************************************************************************)
\* The step appends one workout to the array.
Appends == Len(workouts') = Len(workouts) + 1 /\ SubSeq(workouts', 1, Len(workouts)) = workouts

C12_AcceptedIffPositive ==
    [][(lastEvent'.op = "submit" /\ map)
          => (Appends <=> ~InvalidForm(lastEvent'.input))]_vars

(***************************************************************************)
(* C12, amended.  A submit in state Ready, of the form a click on the map  *)
(* opened, is accepted exactly when the distance and the duration are      *)
(* finite and strictly positive and, for Running, the cadence is finite    *)
(* and strictly positive and, for Cycling, the elevation gain is finite;   *)
(* the sign of the elevation gain is not looked at.                        *)
(***************************************************************************)
C12_AcceptedIffValid ==
    [][(lastEvent'.op = "submit" /\ map /\ mapEvent # NoMapEvent)
          => (Appends <=> ValidForm(lastEvent'.input))]_vars

\* A Cycling submit with an empty (zero) elevation field was accepted.
C12_Witness ==
    /\ lastEvent.op = "submit"
    /\ lastEvent.input.type = "cycling"
    /\ lastEvent.input.elevation = ""
    /\ Len(workouts) = 1
    /\ workouts[1].elevationGain = 0

(***************************************************************************)
(* C13.  When the location fix has been handled, the map holds one marker  *)
(* for every workout of the array and no other, in the order of the array; *)
(* and since the array is filled from storage before the fix can be        *)
(* handled, every workout of the array has a marker whenever there is a    *)
(* map.                                                                    *)
(***************************************************************************)
C13_MarkersAfterFix ==
    /\ (map /\ workoutsIsArray) =>
           \A i \in 1..Len(workouts) : workouts[i].marker # Undefined
    /\ (lastEvent.op = "position" /\ ~lastEvent.threw) =>
           markers = [i \in 1..Len(workouts) |-> Marker(workouts[i])]

\* The fix was handled with two stored workouts in the array.
C13_Witness ==
    /\ lastEvent.op = "position"
    /\ ~lastEvent.threw
    /\ Len(workouts) = 2
    /\ workouts[1].proto = "Object"
    /\ Len(markers) = 2
    /\ markers[1] # markers[2]

(***************************************************************************)
(* C14.  After a start-up from a stored array the workouts of the array    *)
(* are the stored records, as many and in the same order, each with the    *)
(* id, type, pace or speed, description, cadence or elevation gain and     *)
(* every other field as stored, and none has a marker; and no workout has  *)
(* a marker while there is no map.                                         *)
(***************************************************************************)
C14_HydrateKeepsRecords ==
    /\ (lastEvent.op = "start" /\ blob.k = "array") =>
           /\ ~lastEvent.threw
           /\ Len(workouts) = Len(blob.v)
           /\ \A i \in 1..Len(workouts) :
                  LET w == workouts[i]
                      r == blob.v[i]
                  IN /\ w.id = r.id
                     /\ w.type = r.type
                     /\ w.description = r.description
                     /\ w.date = r.date
                     /\ w.coords = r.coords
                     /\ w.distance = r.distance
                     /\ w.duration = r.duration
                     /\ IF r.type = "running"
                        THEN w.pace = r.pace /\ w.cadence = r.cadence
                        ELSE w.speed = r.speed /\ w.elevationGain = r.elevationGain
                     /\ w.marker = Undefined
    /\ ~map => \A i \in 1..Len(workouts) : workouts[i].marker = Undefined

\* Start-up read two records; the speed stored for the second is not the one its
\* distance and duration give.
C14_Witness ==
    /\ lastEvent.op = "start"
    /\ blob.k = "array"
    /\ Len(blob.v) = 2
    /\ Len(workouts) = 2
    /\ workouts[2].type = "cycling"
    /\ workouts[2].speed # calcSpeed(workouts[2].distance, workouts[2].duration)

(***************************************************************************)
(* C15.  While there is no map (the fix has not come, or it failed), a     *)
(* submit appends no workout, places no marker and does not write the      *)
(* stored text, and a click in the list, on an entry or on its Delete      *)
(* button, does not move the view.                                         *)
(***************************************************************************)
C15_NoMapNoMapFeatures ==
    [][/\ (lastEvent'.op = "submit" /\ ~map) => UNCHANGED <<workouts, list, markers, blob>>
       /\ (lastEvent'.op \in {"entryClick", "delete"} /\ ~map) => view' = view]_vars

\* The fix failed, the list shows a stored workout, and a submit with inputs that
\* would pass was handled.
C15_Witness ==
    /\ lastEvent.op = "submit"
    /\ ValidForm(lastEvent.input)
    /\ geo = "failed"
    /\ ~map
    /\ Len(list) > 0
    /\ Len(workouts) = Len(list)

(***************************************************************************)
(* C16.  When the save at the end of an add or of a delete throws, the     *)
(* array, the list and the markers are as the add or the delete made them  *)
(* (the workout appended, shown first in the list and marked; or the       *)
(* workout, its entry and its marker removed), and the stored text is the  *)
(* one from before.                                                        *)
(***************************************************************************)
C16_FailedSaveKeepsResult ==
    [][/\ (lastEvent'.op = "submit" /\ lastEvent'.threw /\ mapEvent # NoMapEvent) =>
              /\ Appends
              /\ LET w == workouts'[Len(workouts')]
                 IN /\ list' = <<Entry(w)>> \o list
                    /\ markers' = Append(markers, Marker(w))
              /\ blob' = blob
       /\ (/\ lastEvent'.op = "delete"
           /\ lastEvent'.threw
           /\ \A j \in 1..Len(workouts) : workouts[j].marker # Undefined) =>
              /\ \E j \in 1..Len(workouts) :
                     /\ workouts' = RemoveAt(workouts, j)
                     /\ Flat(workouts[j]) = lastEvent'.removed.flat
                     /\ \E k \in 1..Len(markers) :
                            /\ markers[k] = Marker(workouts[j])
                            /\ markers' = RemoveAt(markers, k)
              /\ \E i \in 1..Len(list) :
                     /\ list[i] = lastEvent'.target
                     /\ list' = RemoveAt(list, i)
              /\ blob' = blob]_vars

\* A delete took one of two marked workouts out, and the save after it threw.
C16_Witness ==
    /\ lastEvent.op = "delete"
    /\ lastEvent.threw
    /\ lastEvent.removed # NoRecord
    /\ map
    /\ Len(workouts) = 1
    /\ workouts[1].marker # Undefined
    /\ blob.k = "array"
    /\ Len(blob.v) = 2

(***************************************************************************)
(* C17.  In every reachable state the entries of the list, from the top,   *)
(* are the entries of the workouts of the array in the order of the array. *)
(* The code puts every new entry right after the form, above the entries   *)
(* already there.                                                          *)
(***************************************************************************)
C17_DisplayOrderIsInsertionOrder ==
    workoutsIsArray => list = [i \in 1..Len(workouts) |-> Entry(workouts[i])]

(***************************************************************************)
(* C17, amended.  Every entry is put in at the top of the list: a start-up *)
(* leaves the entries of the stored workouts in the reverse of the order   *)
(* of the array above what the list held, and an add leaves the entry of   *)
(* the new workout above all the entries that were there (newest first).   *)
(***************************************************************************)
Reverse(s) == [i \in 1..Len(s) |-> s[Len(s) + 1 - i]]

C17_NewestFirst ==
    [][/\ (lastEvent'.op \in {"start", "hydrate"} /\ ~lastEvent'.threw /\ blob.k = "array") =>
              list' = Reverse([i \in 1..Len(workouts') |-> Entry(workouts'[i])]) \o list
       /\ (lastEvent'.op = "submit" /\ Appends) =>
              list' = <<Entry(workouts'[Len(workouts')])>> \o list]_vars

\* An add put its entry above the entry of a stored workout.
C17_Witness ==
    /\ lastEvent.op = "submit"
    /\ Len(workouts) = 2
    /\ Len(list) = 2
    /\ list[1] = Entry(workouts[2])
    /\ list[2] = Entry(workouts[1])
    /\ list[1] # list[2]

(***************************************************************************)
(* C18.  Whenever there is a map, the markers on it and the workouts of    *)
(* the array correspond one to one: every workout has a marker, there are  *)
(* as many markers as workouts, and what a workout's marker shows (its     *)
(* coordinates, type and description) is on the map as often as the array  *)
(* holds workouts showing the same.                                        *)
(***************************************************************************)
\* How often the sequence s holds x.
Count(s, x) == Cardinality({i \in 1..Len(s) : s[i] = x})

C18_MarkersMatchStore ==
    (map /\ workoutsIsArray) =>
        /\ Len(markers) = Len(workouts)
        /\ \A i \in 1..Len(workouts) :
               /\ workouts[i].marker # Undefined
               /\ Count(markers, Marker(workouts[i]))
                      = Count([j \in 1..Len(workouts) |-> Marker(workouts[j])],
                              Marker(workouts[i]))

\* A workout added on this page was deleted again while a stored one stayed.
C18_Witness ==
    /\ lastEvent.op = "delete"
    /\ lastEvent.removed # NoRecord
    /\ lastEvent.removed.proto # "Object"
    /\ map
    /\ Len(workouts) = 1
    /\ Len(markers) = 1
    /\ markers[1] = Marker(workouts[1])

(***************************************************************************)
(* C19.  The entries of the list and the workouts of the array correspond  *)
(* one to one: there are as many entries as workouts, and the entry        *)
(* showing a workout's id and values is in the list as often as the array  *)
(* holds workouts shown so; and the workout a delete click takes out of    *)
(* the array is the one the clicked entry shows.  With two workouts of one *)
(* id (C5) the code takes out the first of them whichever entry was        *)
(* clicked.                                                                *)
(***************************************************************************)
C19_ListMatchesStore ==
    /\ workoutsIsArray =>
           /\ Len(list) = Len(workouts)
           /\ \A i \in 1..Len(workouts) :
                  Count(list, Entry(workouts[i]))
                      = Count([j \in 1..Len(workouts) |-> Entry(workouts[j])],
                              Entry(workouts[i]))
    /\ DeletedHeld => Entry(lastEvent.removed.flat) = lastEvent.target

(***************************************************************************)
(* C20.  A click on the Delete button of an entry never moves the view:    *)
(* the button's listener runs first, and the container's listener then     *)
(* finds no workout for the entry.  With two workouts of one id (C5) the   *)
(* container's listener finds the other workout and moves the view to it.  *)
(***************************************************************************)
C20_DeleteClickDoesNotPan ==
    [][lastEvent'.op = "delete" => view' = view]_vars

\* C20, the other half (holds): a click on an entry that is not on its Delete
\* button moves the view, when there is a map, to the coordinates of the first
\* workout with the entry's id, and leaves the zoom as it is.
C20_EntryClickPans ==
    [][(lastEvent'.op = "entryClick" /\ map) =>
          \/ \E j \in 1..Len(workouts) :
                 /\ \E i \in 1..Len(list) : list[i].id = workouts[j].id
                 /\ view' = View(workouts[j].coords, view.zoom)
          \/ view' = view]_vars

====
